---- MODULE Spec2Model ----
(***************************************************************************)
(* phys2cvr: index arithmetic of the regressor pipeline                    *)
(* (phys2cvr/regressors.py, phys2cvr/signal.py).                           *)
(*                                                                         *)
(* A time series is modelled by its length and a window of a series by the *)
(* position of its first sample: the claims are about sample counts and    *)
(* positions, never about sample values.  Times in seconds (lag_max,       *)
(* lag_min, tr, trial_len) are the rationals k/TimeDen and frequencies are *)
(* whole Hz, so every product the code forms is an exact rational and      *)
(* int() of it is an integer division.  create_hrf is the exception: its   *)
(* quotient p[6] / (1 / freq) is computed as IEEE-754 doubles compute it   *)
(* (HrfQuotient).  A signal to convolve is modelled by its shape, a        *)
(* response function by its type, its text and the length of its kernel.   *)
(***************************************************************************)
EXTENDS Integers, Sequences, FiniteSets, TLC

\* ------------------------------------------------------------- bounds
\* seconds are counted in units of 1/TimeDen
TimeDen == 4
\* largest |lag| in units of 1/TimeDen seconds
MaxLag == 6
\* largest sampling frequency of the regressor, Hz
MaxFreq == 2
\* largest length of petco2hrf
MaxRegLen == 5
\* largest bulk shift the cross-correlation may hand back
MaxShift == 3
\* largest upsampled functional length of a direct call
MaxUpsamp == 3
\* largest native functional length
MaxFuncLen == 3
\* largest TR, in units of 1/TimeDen seconds
MaxTr == 6
\* largest number of trials
MaxTrials == 5
\* largest trial length, in units of 1/TimeDen seconds
MaxTrialLen == 6
\* create_hrf is called with the frequencies 1..MaxHrfFreq Hz
MaxHrfFreq == 100
\* a signal to convolve has 2..MaxSigLen samples along its long axis
MaxSigLen == 3
\* a kernel given as array, file or library function has 1..MaxKernelLen samples
MaxKernelLen == 2

\* ------------------------------------------------------ python values
\* an optional argument: None, or a value
None == [some |-> FALSE, v |-> 0]
Some(x) == [some |-> TRUE, v |-> x]
Opt(S) == {None} \cup {Some(x) : x \in S}

\* `if x` of an optional number: None and 0 are false
Truthy(o) == o.some /\ o.v # 0

Max(a, b) == IF a >= b THEN a ELSE b
Min(a, b) == IF a <= b THEN a ELSE b
Abs(a) == IF a >= 0 THEN a ELSE -a

\* int() of the rational num/den, den > 0: truncation toward zero
PyInt(num, den) == IF num >= 0 THEN num \div den ELSE -((-num) \div den)

\* a bound of a slice with step -1 on a sequence of n items, as CPython
\* adjusts it: a negative bound counts from the end
PySliceBoundRev(i, n) == IF i < 0 THEN Max(i + n, -1) ELSE Min(i, n - 1)

\* the indices seq[start:stop:-1] reads on a sequence of n items, in order
PySliceRev(n, start, stop) ==
    LET s == PySliceBoundRev(start, n)
        e == PySliceBoundRev(stop, n)
    IN  [k \in 1..Max(0, s - e) |-> s - (k - 1)]

\* a bound of a slice with step 1 on a sequence of n items
PySliceBound(i, n) == IF i < 0 THEN Max(i + n, 0) ELSE Min(i, n)

\* len(seq[start:stop]) on a sequence of n items
PySliceLen(n, start, stop) ==
    Max(0, PySliceBound(stop, n) - PySliceBound(start, n))

\* ---------------------------------------------------------- rationals
\* the rational n/d, d > 0
Rat(n, d) == [n |-> n, d |-> d]
RatMul(a, b) == Rat(a.n * b.n, a.d * b.d)
\* a / b, b > 0
RatDiv(a, b) == Rat(a.n * b.d, a.d * b.n)
\* a time of k units, in seconds
Seconds(k) == Rat(k, TimeDen)

\* ------------------------------------------------------------ signal.py
\* resample_signal_freqs: the number of samples of the resampled series,
\* len(regr_t) = int(len_s * freq2) + 1 with len_s = (len_tp - 1) / freq1
ResampleLenOffByOne(len_tp, freq1, freq2) ==
    LET len_s == RatDiv(Rat(len_tp, 1), freq1)
        prod  == RatMul(len_s, freq2)
    IN  PyInt(prod.n, prod.d) + 1

resample_signal_freqs(len_tp, freq1, freq2) ==
    LET len_s == RatDiv(Rat(len_tp - 1, 1), freq1)
        prod  == RatMul(len_s, freq2)
    IN  PyInt(prod.n, prod.d) + 1

\* -------------------------------------------------------- regressors.py
\* compute_bulk_shift, lines 179-203: the search window chosen from the
\* trial structure.  trial_len is in units of 1/TimeDen seconds.
TrialWindowLate(trial_len, n_trials, freq) ==
    IF Truthy(trial_len) /\ Truthy(n_trials)
    THEN LET ftp == IF n_trials.v > 4 THEN PyInt(trial_len.v * freq, TimeDen) ELSE 0
         IN  [first_tp |-> ftp,
              n_shifts |-> IF n_trials.v > 4 THEN Some(ftp * (n_trials.v - 2)) ELSE None,
              warned   |-> FALSE]
    ELSE [first_tp |-> 0, n_shifts |-> None,
          warned |-> Truthy(trial_len) \/ Truthy(n_trials)]

TrialWindow(trial_len, n_trials, freq) ==
    IF Truthy(trial_len) /\ Truthy(n_trials)
    THEN LET ftp == IF n_trials.v > 3 THEN PyInt(trial_len.v * freq, TimeDen) ELSE 0
         IN  [first_tp |-> ftp,
              n_shifts |-> IF n_trials.v > 4 THEN Some(ftp * (n_trials.v - 2)) ELSE None,
              warned   |-> FALSE]
    ELSE IF Truthy(trial_len) /\ ~Truthy(n_trials)
    THEN [first_tp |-> 0, n_shifts |-> None, warned |-> TRUE]
    ELSE IF ~Truthy(trial_len) /\ Truthy(n_trials)
    THEN [first_tp |-> 0, n_shifts |-> None, warned |-> TRUE]
    ELSE [first_tp |-> 0, n_shifts |-> None, warned |-> FALSE]

\* compute_bulk_shift, line 220: the functional length the check adds to the
\* shift, func_upsampled.shape[0] (func_cut is the trial-truncated signal)
CheckedLenTruncated(func_upsamp_len, func_cut_len) == func_cut_len

CheckedLen(func_upsamp_len, func_cut_len) == func_upsamp_len

\* compute_bulk_shift, line 220: the shift removes too many samples
AlignmentOverflow(shift, func_len, reg_len) == shift + func_len > reg_len

\* compute_bulk_shift, lines 213-217: the shift file and the xcorr figure
XcorrExportsNone(files) == files

XcorrExports(files) == Append(Append(files, "optshift.1D"), "xcorr.png")

\* create_fine_shift_regressors, line 279
NegShiftsRounded(lag_min, freq) == PyInt(2 * Abs(lag_min) * freq + TimeDen, 2 * TimeDen)

NegShifts(lag_min, freq) == PyInt(Abs(lag_min) * freq, TimeDen)

\* create_fine_shift_regressors, line 280
PosShifts(lag_max, freq, legacy) ==
    IF legacy THEN PyInt(lag_max * freq, TimeDen) ELSE PyInt(lag_max * freq, TimeDen) + 1

\* create_fine_shift_regressors, lines 284-285
RightPad(func_upsamp_size, shift, pos_shifts, reg_len) ==
    Max(0, func_upsamp_size + shift + pos_shifts - reg_len)

LeftPad(neg_shifts, shift) == Max(0, neg_shifts - shift)

\* create_fine_shift_regressors, lines 291-292
NegIdx(shift, pos_shifts, lpad) == shift - pos_shifts + lpad - 1

PosIdx(shift, neg_shifts, lpad) == shift + neg_shifts + lpad - 1

\* sliding_window_view(x, w): the number of windows of a series of n samples
\* (numpy raises ValueError when w > n)
SwvCount(n, w) == n - w + 1

\* create_fine_shift_regressors, lines 279-294, lag_min a number: the padded
\* series and the rows swv(petco2hrf, func_upsamp_size)[pos_idx:neg_idx:-1],
\* each row named by the index of its window in the padded series
FineShift(reg_len, shift, lag_max, lag_min, freq, func_upsamp_size, legacy) ==
    LET neg  == NegShifts(lag_min, freq)
        pos  == PosShifts(lag_max, freq, legacy)
        rpad == RightPad(func_upsamp_size, shift, pos, reg_len)
        lpad == LeftPad(neg, shift)
        plen == lpad + reg_len + rpad
        nwin == SwvCount(plen, func_upsamp_size)
        nidx == NegIdx(shift, pos, lpad)
        pidx == PosIdx(shift, neg, lpad)
    IN  [called |-> TRUE, shift |-> shift,
         neg_shifts |-> neg, pos_shifts |-> pos, lpad |-> lpad, rpad |-> rpad,
         padded_len |-> plen, n_windows |-> nwin, neg_idx |-> nidx, pos_idx |-> pidx,
         rows |-> IF nwin >= 1 THEN PySliceRev(nwin, pidx, nidx) ELSE <<>>]

\* create_fine_shift_regressors not entered
NoFine ==
    [called |-> FALSE, shift |-> 0,
     neg_shifts |-> 0, pos_shifts |-> 0, lpad |-> 0, rpad |-> 0,
     padded_len |-> 0, n_windows |-> 0, neg_idx |-> 0, pos_idx |-> 0, rows |-> <<>>]

\* io.export_regressor(values, ntp, ...): the series resampled to ntp samples,
\* demeaned, saved and handed back
ExportSeries(series, ntp) == [some |-> TRUE, start |-> series.start, len |-> ntp]

\* io.export_regressor on a bank: every row resampled to ntp samples
ExportBank(rows, ntp) == [some |-> TRUE, rows |-> rows, cols |-> ntp]

NoSeries == [some |-> FALSE, start |-> 0, len |-> 0]
NoBank == [some |-> FALSE, rows |-> <<>>, cols |-> 0]
NoXcorr == [called |-> FALSE, shift |-> 0, first_tp |-> 0, n_shifts |-> None,
            func_cut_len |-> 0, offset |-> 0, abs_xcorr |-> FALSE]

\* create_physio_regressor, lines 383-395: the figure of the shifted
\* regressor and the file of the single regressor
SimpleExportsNone(files) == Append(files, "petco2hrf_vs_avgroi.png")

SimpleExports(files) ==
    Append(Append(files, "petco2hrf_vs_avgroi.png"), "petco2hrf_simple")

\* create_physio_regressor, line 372: the bulk shift search is skipped
SkipNever(skip_xcorr) == FALSE

SkipBulkShift(skip_xcorr) == skip_xcorr

\* create_physio_regressor, lines 399-417: which branch the lag bank takes
LagBranchNoGuard(lagged_regression, lag_max) ==
    IF lagged_regression THEN "fine" ELSE "info"

LagBranch(lagged_regression, lag_max) ==
    IF lagged_regression /\ Truthy(lag_max) THEN "fine"
    ELSE IF lagged_regression /\ ~Truthy(lag_max) THEN "warn"
    ELSE "info"

\* ------------------------------------------------------- signal.py kernels
\* the largest power of two not above f has BitLen(f) bits
RECURSIVE BitLen(_)
BitLen(f) == IF f = 0 THEN 0 ELSE 1 + BitLen(f \div 2)

\* 2^k modulo f
RECURSIVE Pow2Mod(_, _)
Pow2Mod(k, f) == IF k = 0 THEN 1 % f ELSE (2 * Pow2Mod(k - 1, f)) % f

\* create_hrf, lines 64 and 81, in IEEE-754 double arithmetic: how the double
\* p[6] / RT compares with the integer 32*freq, RT the double nearest to
\* 1/freq (-1: below, 0: equal, 1: above).  With c = BitLen(freq) and freq
\* not a power of two, RT = m / 2^(52+c) where m is 2^(52+c)/freq rounded to
\* the nearest integer; r = 2^(52+c) mod freq says which way: 2r > freq
\* rounds RT up by the relative error (freq-r)/2^(52+c), 2r < freq rounds it
\* down by r/2^(52+c).  The doubles around 32*freq are 2^(c-48) apart, so the
\* quotient 32/RT is rounded back to 32*freq unless its distance from it,
\* 32*freq times the relative error, is above half that spacing:
\* 4*freq*(freq-r) > 4^c when RT is above 1/freq, 4*freq*r >= 4^c when below.
HrfQuotient(freq) ==
    LET c == BitLen(freq)
        r == Pow2Mod(52 + c, freq)
    IN  IF r = 0 THEN 0
        ELSE IF 2 * r > freq
        THEN (IF 4 * freq * (freq - r) > 4 ^ c THEN -1 ELSE 0)
        ELSE (IF 4 * freq * r >= 4 ^ c THEN 1 ELSE 0)

\* create_hrf, line 70: len(u) = len(np.arange(0, p[6] / dt + 1, 1)), the
\* ceiling of 16 * (p[6] / RT) + 1 (dt = RT / 16 is exact)
HrfGridLen(freq) ==
    IF HrfQuotient(freq) > 0 THEN 16 * 32 * freq + 2 ELSE 16 * 32 * freq + 1

\* create_hrf, line 81: len(time_axis) = int(p[6] / RT + 1)
HrfAxisLen(freq) ==
    IF HrfQuotient(freq) < 0 THEN 32 * freq ELSE 32 * freq + 1

\* create_hrf, lines 64-90: the grid, the indices taken from it and the kernel
\* (hrf[time_axis] raises IndexError for an index outside the grid)
create_hrf(freq) ==
    LET grid == HrfGridLen(freq)
        n    == HrfAxisLen(freq)
        top  == (n - 1) * 16
    IN  [grid_len |-> grid, max_idx |-> top,
         err |-> IF top > grid - 1 THEN "IndexError" ELSE "",
         hrf_len |-> IF top > grid - 1 THEN 0 ELSE n]

\* numpy squeeze(): the axes of length 1 are dropped
Squeeze(shape) == SelectSeq(shape, LAMBDA d : d # 1)

\* str.lower() on the strings a call gives as response_function
Lower(text) ==
    CASE text = "HRF" -> "hrf"
      [] text \in {"None", "NONE"} -> "none"
      [] OTHER -> text

\* a response_function: its Python type, its text (str, PosixPath), whether
\* its items are numbers (list, ndarray), and the number of samples of the
\* kernel it stands for (list, ndarray, file, phys2denoise function)
ResponseFunction(type, text, numeric, len) ==
    [type |-> type, text |-> text, numeric |-> numeric, len |-> len]

\* convolve_signal, lines 196-204: a str that names an existing file becomes a
\* Path, any other str is lowercased and 'none' becomes None
NormaliseResponse(rf, existing) ==
    IF rf.type = "str"
    THEN IF rf.text \in existing
         THEN [rf EXCEPT !.type = "PosixPath"]
         ELSE IF Lower(rf.text) = "none"
         THEN [rf EXCEPT !.type = "NoneType", !.text = ""]
         ELSE [rf EXCEPT !.text = Lower(rf.text)]
    ELSE rf

\* convolve_signal, lines 249-255: a Path is loaded if it exists
PathKernelUnchecked(exists) == IF exists THEN "" ELSE "NotImplementedError"

PathKernel(exists) == IF exists THEN "" ELSE "OSError"

\* convolve_signal, lines 206-260: the kernel of a normalised
\* response_function ("skip": the signal is returned as it is)
ResolveKernel(rf, freq, existing, phys2denoise) ==
    IF rf.type \in {"list", "ndarray"}
    THEN IF ~rf.numeric
         THEN [err |-> "ValueError", kernel |-> "", len |-> 0]
         ELSE [err |-> "", kernel |-> "array", len |-> rf.len]
    ELSE IF rf.type = "NoneType"
    THEN [err |-> "", kernel |-> "skip", len |-> 0]
    ELSE IF rf.type = "str" /\ rf.text = "hrf"
    THEN LET h == create_hrf(freq)
         IN  [err |-> h.err, kernel |-> IF h.err = "" THEN "hrf" ELSE "",
              len |-> h.hrf_len]
    ELSE IF rf.type = "str" /\ rf.text \in {"rrf", "crf", "icrf"}
    THEN IF ~phys2denoise
         THEN [err |-> "ImportError", kernel |-> "", len |-> 0]
         ELSE [err |-> "", kernel |-> rf.text, len |-> rf.len]
    ELSE IF rf.type = "PosixPath"
    THEN IF PathKernel(rf.text \in existing) # ""
         THEN [err |-> PathKernel(rf.text \in existing), kernel |-> "", len |-> 0]
         ELSE [err |-> "", kernel |-> "file", len |-> rf.len]
    ELSE [err |-> "NotImplementedError", kernel |-> "", len |-> 0]

\* np.convolve(a, v, mode): the length of the result
ConvolveLen(n, m, mode) ==
    IF mode = "full" THEN n + m - 1
    ELSE IF mode = "same" THEN Max(n, m)
    ELSE Max(n, m) - Min(n, m) + 1

\* convolve_signal, lines 190-194: the test that rejects a squeezed signal
NdimRejected(ndim) == ndim > 2

\* convolve_signal, lines 190-269: where it stops ("shape", "kernel",
\* "convolve", "": returned), the exception, the kernel and the result
convolve_signal(shape, freq, response_function, mode, existing, phys2denoise) ==
    LET signal == Squeeze(shape)
        rf     == NormaliseResponse(response_function, existing)
        k      == ResolveKernel(rf, freq, existing, phys2denoise)
        none   == [called |-> TRUE, stage |-> "", err |-> "", kernel |-> "",
                   kernel_len |-> 0, out |-> <<>>, convolved |-> FALSE]
    IN  IF NdimRejected(Len(signal))
        THEN [none EXCEPT !.stage = "shape", !.err = "NotImplementedError"]
        ELSE IF k.err # ""
        THEN [none EXCEPT !.stage = "kernel", !.err = k.err]
        ELSE IF k.kernel = "skip"
        THEN [none EXCEPT !.kernel = "skip", !.out = signal]
        ELSE IF Len(signal) # 1
        THEN [none EXCEPT !.stage = "convolve", !.err = "ValueError",
                          !.kernel = k.kernel, !.kernel_len = k.len]
        ELSE [none EXCEPT !.kernel = k.kernel, !.kernel_len = k.len,
                          !.out = <<ConvolveLen(signal[1], k.len, mode)>>,
                          !.convolved = TRUE]

\* convolve_signal not entered
NoConv ==
    [called |-> FALSE, stage |-> "", err |-> "", kernel |-> "",
     kernel_len |-> 0, out |-> <<>>, convolved |-> FALSE]

\* create_hrf not entered
NoHrf == [grid_len |-> 0, max_idx |-> 0, err |-> "", hrf_len |-> 0]

\* a call that leaves response_function out
Omitted == ResponseFunction("omitted", "", FALSE, 0)

\* convolve_signal, line 149: the default of response_function
ConvolveDefault == ResponseFunction("str", "hrf", FALSE, 0)

\* compute_petco2hrf, line 63: the default of response_function
ComputeDefault == ResponseFunction("str", "hfr", FALSE, 0)

\* the response_function a function body sees
ArgOrDefault(rf, default) == IF rf = Omitted THEN default ELSE rf

\* compute_petco2hrf, line 122: response_function not in [None, 'none',
\* 'None', 'NONE'].  An ndarray of more than one item compared with None
\* gives an array, whose truth value raises ValueError.
ConvolutionWanted(rf) ==
    IF rf.type = "ndarray" /\ rf.len > 1 THEN "ValueError"
    ELSE IF rf.type = "NoneType" THEN "no"
    ELSE IF rf.type = "str" /\ rf.text \in {"none", "None", "NONE"} THEN "no"
    ELSE "yes"

\* compute_petco2hrf, lines 103-119: the files written before the convolution
EndtidalExports(files, comp_endtidal) ==
    IF comp_endtidal
    THEN Append(Append(files, "co2_vs_petco2.png"), "petco2.1D")
    ELSE files

\* ---------------------------------------------------------------- state
VARIABLES
    pc,                 \* where the call is
    args,               \* the arguments of the call
    func_upsamp_size,   \* len(func_upsampled)
    xcorr,              \* compute_bulk_shift: the window and what x_corr found
    optshift,           \* the bulk shift (None: not set yet)
    petco2hrf_shift,    \* the slice petco2hrf[optshift : optshift + len(func_upsampled)]
    petco2hrf_demean,   \* the exported single regressor
    petco2hrf_lagged,   \* the exported lag bank
    fine,               \* create_fine_shift_regressors: its locals
    files,              \* the files written, in order
    warnings,           \* the warnings logged
    err,                \* the exception raised ("": none)
    conv,               \* convolve_signal: where it stopped, kernel and result
    hrf                 \* create_hrf: the grid, the indices and the kernel

vars == <<pc, args, func_upsamp_size, xcorr, optshift, petco2hrf_shift,
          petco2hrf_demean, petco2hrf_lagged, fine, files, warnings, err,
          conv, hrf>>

\* the arguments no entry point reads keep these values
DefaultArgs ==
    [func_len |-> 1, tr |-> TimeDen, freq |-> 1, reg_len |-> 1,
     lag_max |-> None, lag_min |-> None, trial_len |-> None, n_trials |-> None,
     lagged_regression |-> TRUE, legacy |-> FALSE, abs_xcorr |-> FALSE,
     skip_xcorr |-> FALSE, freq1 |-> Rat(1, 1), freq2 |-> Rat(1, 1)]

InitLocals ==
    /\ xcorr = NoXcorr
    /\ petco2hrf_shift = NoSeries
    /\ petco2hrf_demean = NoSeries
    /\ petco2hrf_lagged = NoBank
    /\ fine = NoFine
    /\ files = <<>>
    /\ warnings = {}
    /\ err = ""
    /\ conv = NoConv
    /\ hrf = NoHrf

\* ------------------------------------------------- resample_signal_freqs
\* a direct call resample_signal_freqs(ts, freq1, freq2)
ResampleCall ==
    /\ pc = "resample_call"
    /\ func_upsamp_size' = resample_signal_freqs(args.func_len, args.freq1, args.freq2)
    /\ pc' = "resample_returned"
    /\ UNCHANGED <<args, xcorr, optshift, petco2hrf_shift, petco2hrf_demean,
                   petco2hrf_lagged, fine, files, warnings, err,
                   conv, hrf>>

\* ---------------------------------------------------- compute_bulk_shift
\* lines 179-217: the window, x_corr (any shift it may hand back), the shift
\* file and the xcorr figure
BulkSearch(from, to) ==
    /\ pc = from
    /\ LET w   == TrialWindow(args.trial_len, args.n_trials, args.freq)
           cut == PySliceLen(func_upsamp_size, w.first_tp, func_upsamp_size)
       IN  /\ \E s \in 0..MaxShift :
                xcorr' = [called |-> TRUE, shift |-> s, first_tp |-> w.first_tp,
                          n_shifts |-> w.n_shifts, func_cut_len |-> cut,
                          offset |-> w.first_tp, abs_xcorr |-> args.abs_xcorr]
           /\ warnings' = IF w.warned THEN warnings \cup {"trials"} ELSE warnings
    /\ files' = XcorrExports(files)
    /\ pc' = to
    /\ UNCHANGED <<args, func_upsamp_size, optshift, petco2hrf_shift,
                   petco2hrf_demean, petco2hrf_lagged, fine, err,
                   conv, hrf>>

\* lines 219-226: the check of the shift, and the return
BulkCheck(from, to, raised) ==
    /\ pc = from
    /\ IF AlignmentOverflow(xcorr.shift,
                            CheckedLen(func_upsamp_size, xcorr.func_cut_len),
                            args.reg_len)
       THEN /\ err' = "Exception"
            /\ pc' = raised
            /\ UNCHANGED optshift
       ELSE /\ optshift' = Some(xcorr.shift)
            /\ pc' = to
            /\ UNCHANGED err
    /\ UNCHANGED <<args, func_upsamp_size, xcorr, petco2hrf_shift,
                   petco2hrf_demean, petco2hrf_lagged, fine, files, warnings,
                   conv, hrf>>

\* a direct call compute_bulk_shift(func_upsampled, petco2hrf, freq, ...)
BulkCallSearch == BulkSearch("bulk_call", "bulk_xcorr")
BulkCallCheck == BulkCheck("bulk_xcorr", "bulk_returned", "bulk_raised")

\* ------------------------------------------ create_fine_shift_regressors
\* lines 274-298.  abs(None) raises TypeError at line 279.
CreateFine(from, to, raised) ==
    /\ pc = from
    /\ IF ~args.lag_min.some
       THEN /\ fine' = [NoFine EXCEPT !.called = TRUE, !.shift = optshift.v]
            /\ err' = "TypeError"
            /\ pc' = raised
            /\ UNCHANGED <<petco2hrf_lagged, files>>
       ELSE LET f == FineShift(args.reg_len, optshift.v, args.lag_max.v,
                               args.lag_min.v, args.freq, func_upsamp_size,
                               args.legacy)
            IN  /\ fine' = f
                /\ IF f.n_windows < 1
                   THEN /\ err' = "ValueError"
                        /\ pc' = raised
                        /\ UNCHANGED <<petco2hrf_lagged, files>>
                   ELSE /\ petco2hrf_lagged' = ExportBank(f.rows, args.func_len)
                        /\ files' = Append(files, "regr/shifts")
                        /\ pc' = to
                        /\ UNCHANGED err
    /\ UNCHANGED <<args, func_upsamp_size, xcorr, optshift, petco2hrf_shift,
                   petco2hrf_demean, warnings,
                   conv, hrf>>

\* a direct call create_fine_shift_regressors(petco2hrf, optshift, ...)
FineCall == CreateFine("fine_call", "fine_returned", "fine_raised")

\* ----------------------------------------------- create_physio_regressor
\* line 370
Resample ==
    /\ pc = "start"
    /\ func_upsamp_size' =
         resample_signal_freqs(args.func_len, RatDiv(Rat(1, 1), Seconds(args.tr)),
                               Rat(args.freq, 1))
    /\ pc' = "resampled"
    /\ UNCHANGED <<args, xcorr, optshift, petco2hrf_shift, petco2hrf_demean,
                   petco2hrf_lagged, fine, files, warnings, err,
                   conv, hrf>>

\* lines 372-374
SkipXcorr ==
    /\ pc = "resampled"
    /\ SkipBulkShift(args.skip_xcorr)
    /\ optshift' = Some(0)
    /\ pc' = "shifted"
    /\ UNCHANGED <<args, func_upsamp_size, xcorr, petco2hrf_shift,
                   petco2hrf_demean, petco2hrf_lagged, fine, files, warnings, err,
                   conv, hrf>>

\* lines 375-378
XcorrSearch ==
    /\ ~SkipBulkShift(args.skip_xcorr)
    /\ BulkSearch("resampled", "xcorr")

XcorrCheck == BulkCheck("xcorr", "shifted", "raised")

\* lines 380-395: the slice at the bulk shift, its plot and its export
SliceExport ==
    /\ pc = "shifted"
    /\ LET sl == [some  |-> TRUE,
                  start |-> PySliceBound(optshift.v, args.reg_len),
                  len   |-> PySliceLen(args.reg_len, optshift.v,
                                       optshift.v + func_upsamp_size)]
       IN  /\ petco2hrf_shift' = sl
           /\ petco2hrf_demean' = ExportSeries(sl, args.func_len)
    /\ files' = SimpleExports(files)
    /\ pc' = "exported"
    /\ UNCHANGED <<args, func_upsamp_size, xcorr, optshift, petco2hrf_lagged,
                   fine, warnings, err,
                   conv, hrf>>

\* lines 399-411
LagBank ==
    /\ LagBranch(args.lagged_regression, args.lag_max) = "fine"
    /\ CreateFine("exported", "returned", "raised")

\* lines 412-415
LagWarn ==
    /\ pc = "exported"
    /\ LagBranch(args.lagged_regression, args.lag_max) = "warn"
    /\ warnings' = warnings \cup {"lag_max"}
    /\ pc' = "returned"
    /\ UNCHANGED <<args, func_upsamp_size, xcorr, optshift, petco2hrf_shift,
                   petco2hrf_demean, petco2hrf_lagged, fine, files, err,
                   conv, hrf>>

\* lines 416-417
LagInfo ==
    /\ pc = "exported"
    /\ LagBranch(args.lagged_regression, args.lag_max) = "info"
    /\ pc' = "returned"
    /\ UNCHANGED <<args, func_upsamp_size, xcorr, optshift, petco2hrf_shift,
                   petco2hrf_demean, petco2hrf_lagged, fine, files, warnings, err,
                   conv, hrf>>

\* ------------------------------------------------------------ create_hrf
\* a direct call create_hrf(freq)
HrfCall ==
    /\ pc = "hrf_call"
    /\ hrf' = create_hrf(args.freq)
    /\ err' = create_hrf(args.freq).err
    /\ pc' = IF create_hrf(args.freq).err = "" THEN "hrf_returned" ELSE "hrf_raised"
    /\ UNCHANGED <<args, func_upsamp_size, xcorr, optshift, petco2hrf_shift,
                   petco2hrf_demean, petco2hrf_lagged, fine, files, warnings, conv>>

\* -------------------------------------------------------- convolve_signal
\* a direct call convolve_signal(signal, freq, response_function, mode)
ConvolveCall ==
    /\ pc = "conv_call"
    /\ LET c == convolve_signal(args.shape, args.freq,
                                ArgOrDefault(args.response_function, ConvolveDefault),
                                args.mode, args.existing, args.phys2denoise)
       IN  /\ conv' = c
           /\ err' = c.err
           /\ pc' = IF c.err = "" THEN "conv_returned" ELSE "conv_raised"
    /\ UNCHANGED <<args, func_upsamp_size, xcorr, optshift, petco2hrf_shift,
                   petco2hrf_demean, petco2hrf_lagged, fine, files, warnings, hrf>>

\* ------------------------------------------------------ compute_petco2hrf
\* lines 97-101
ComputeSqueeze ==
    /\ pc = "pet_call"
    /\ IF Len(Squeeze(args.shape)) > 1
       THEN /\ err' = "NotImplementedError"
            /\ pc' = "pet_raised"
       ELSE /\ pc' = "pet_squeezed"
            /\ UNCHANGED err
    /\ UNCHANGED <<args, func_upsamp_size, xcorr, optshift, petco2hrf_shift,
                   petco2hrf_demean, petco2hrf_lagged, fine, files, warnings,
                   conv, hrf>>

\* lines 103-119: the end-tidal interpolation at the peaks pidx (valid peak
\* indices), its figure and its file, or the demeaned trace as it is
ComputeEndtidal ==
    /\ pc = "pet_squeezed"
    /\ files' = EndtidalExports(files, args.comp_endtidal)
    /\ pc' = "pet_petco2"
    /\ UNCHANGED <<args, func_upsamp_size, xcorr, optshift, petco2hrf_shift,
                   petco2hrf_demean, petco2hrf_lagged, fine, warnings, err,
                   conv, hrf>>

\* lines 122-136: the convolution and its figure, or petco2hrf = petco2
ComputeConvolve ==
    /\ pc = "pet_petco2"
    /\ LET rf     == ArgOrDefault(args.response_function, ComputeDefault)
           wanted == ConvolutionWanted(rf)
           c      == convolve_signal(Squeeze(args.shape), args.freq, rf, args.mode,
                                     args.existing, args.phys2denoise)
       IN  IF wanted = "ValueError"
           THEN /\ err' = "ValueError"
                /\ pc' = "pet_raised"
                /\ UNCHANGED <<conv, files>>
           ELSE IF wanted = "no"
           THEN /\ conv' = [NoConv EXCEPT !.out = Squeeze(args.shape)]
                /\ pc' = "pet_returned"
                /\ UNCHANGED <<err, files>>
           ELSE /\ conv' = c
                /\ err' = c.err
                /\ pc' = IF c.err = "" THEN "pet_returned" ELSE "pet_raised"
                /\ files' = IF c.err = "" THEN Append(files, "petco2_vs_petco2hrf.png")
                            ELSE files
    /\ UNCHANGED <<args, func_upsamp_size, xcorr, optshift, petco2hrf_shift,
                   petco2hrf_demean, petco2hrf_lagged, fine, warnings, hrf>>

\* ------------------------------------------------------- specifications
\* the lag bounds a call may give, in units of 1/TimeDen seconds
LagMaxSet == 0..MaxLag
LagMinSet == {-k : k \in 0..MaxLag}

\* create_physio_regressor(func_avg, petco2hrf, tr, freq, ...)
Init ==
    /\ pc = "start"
    /\ args \in {[DefaultArgs EXCEPT !.func_len = n, !.tr = t, !.freq = f,
                    !.reg_len = l, !.lag_max = lx, !.lag_min = ln,
                    !.trial_len = tl, !.n_trials = nt,
                    !.lagged_regression = b[1], !.legacy = b[2],
                    !.abs_xcorr = b[3], !.skip_xcorr = b[4]] :
                  n \in 1..MaxFuncLen, t \in {TimeDen, MaxTr}, f \in 1..MaxFreq,
                  l \in 1..MaxRegLen,
                  lx \in {None, Some(0), Some(MaxLag)},
                  ln \in {None, Some(-TimeDen), Some(-MaxLag)},
                  tl \in {None, Some(TimeDen)}, nt \in {None, Some(MaxTrials)},
                  b \in [1..4 -> BOOLEAN]}
    /\ func_upsamp_size = 0
    /\ optshift = None
    /\ InitLocals

Next ==
    \/ Resample
    \/ SkipXcorr
    \/ XcorrSearch
    \/ XcorrCheck
    \/ SliceExport
    \/ LagBank
    \/ LagWarn
    \/ LagInfo

Spec == Init /\ [][Next]_vars

\* compute_bulk_shift(func_upsampled, petco2hrf, freq, outprefix, ...)
InitBulk ==
    /\ pc = "bulk_call"
    /\ args \in {[DefaultArgs EXCEPT !.freq = f, !.reg_len = l, !.trial_len = tl,
                    !.n_trials = nt, !.abs_xcorr = a] :
                  f \in 1..MaxFreq, l \in 1..MaxRegLen,
                  tl \in Opt(0..MaxTrialLen), nt \in Opt(0..MaxTrials),
                  a \in BOOLEAN}
    /\ func_upsamp_size \in 1..MaxUpsamp
    /\ optshift = None
    /\ InitLocals

NextBulk == BulkCallSearch \/ BulkCallCheck

SpecBulk == InitBulk /\ [][NextBulk]_vars

\* create_fine_shift_regressors(petco2hrf, optshift, lag_max, lag_min, ...)
InitFine ==
    /\ pc = "fine_call"
    /\ args \in {[DefaultArgs EXCEPT !.func_len = n, !.freq = f, !.reg_len = l,
                    !.lag_max = Some(lx), !.lag_min = ln, !.legacy = lg] :
                  n \in {1, MaxFuncLen}, f \in 1..MaxFreq, l \in 1..MaxRegLen,
                  lx \in LagMaxSet, ln \in Opt(LagMinSet), lg \in BOOLEAN}
    /\ func_upsamp_size \in 1..MaxUpsamp
    /\ optshift \in {Some(s) : s \in 0..MaxShift}
    /\ InitLocals

NextFine == FineCall

SpecFine == InitFine /\ [][NextFine]_vars

\* resample_signal_freqs(ts, freq1, freq2), freq1 and freq2 positive rationals,
\* called directly or as create_physio_regressor calls it at line 370
InitResample ==
    /\ \/ /\ pc = "resample_call"
          /\ args \in {[DefaultArgs EXCEPT !.func_len = n, !.freq1 = Rat(a, b),
                          !.freq2 = Rat(c, d)] :
                        n \in 1..MaxFuncLen, a \in 1..MaxTr, b \in 1..TimeDen,
                        c \in 1..MaxFreq, d \in 1..2}
       \/ /\ pc = "start"
          /\ args \in {[DefaultArgs EXCEPT !.func_len = n, !.tr = t, !.freq = f] :
                        n \in 1..MaxFuncLen, t \in 1..MaxTr, f \in 1..MaxFreq}
    /\ func_upsamp_size = 0
    /\ optshift = None
    /\ InitLocals

NextResample == ResampleCall \/ Resample

SpecResample == InitResample /\ [][NextResample]_vars

\* create_hrf(freq), freq a positive integer
InitHrf ==
    /\ pc = "hrf_call"
    /\ args \in {[DefaultArgs EXCEPT !.freq = f] : f \in 1..MaxHrfFreq}
    /\ func_upsamp_size = 0
    /\ optshift = None
    /\ InitLocals

NextHrf == HrfCall

SpecHrf == InitHrf /\ [][NextHrf]_vars

\* the shapes of the signal a call gives: n samples, alone or with other axes
SignalShapes ==
    UNION {{<<n>>, <<1, n>>, <<n, 1>>, <<2, n>>, <<1, 2, n>>, <<2, 2, n>>} :
             n \in 2..MaxSigLen}

\* the strings and paths a call gives as response_function
KernelNames == {"hrf", "HRF", "hfr", "rrf", "crf", "icrf", "none", "None", "NONE"}
KernelPaths == {"rf/kernel.1d"}

\* the values of response_function: left out, None, a str, a Path, a list or
\* ndarray (of numbers or not), another type
ResponseFunctions ==
    {Omitted, ResponseFunction("NoneType", "", FALSE, 0),
     ResponseFunction("int", "", FALSE, 0)}
    \cup {ResponseFunction("str", t, FALSE, k) :
            t \in KernelNames \cup KernelPaths, k \in 1..MaxKernelLen}
    \cup {ResponseFunction("PosixPath", t, FALSE, k) :
            t \in KernelPaths, k \in 1..MaxKernelLen}
    \cup {ResponseFunction(ty, "", b, k) :
            ty \in {"list", "ndarray"}, b \in BOOLEAN, k \in 1..MaxKernelLen}

\* convolve_signal(signal, freq, response_function, mode) and
\* compute_petco2hrf(co2, pidx, freq, outprefix, comp_endtidal,
\* response_function, mode); existing: the files on disk
ConvArgs ==
    {[shape |-> sh, freq |-> f, response_function |-> rf, mode |-> m,
      comp_endtidal |-> ce, existing |-> ex, phys2denoise |-> pd] :
       sh \in SignalShapes, f \in 1..MaxFreq, rf \in ResponseFunctions,
       m \in {"full", "same", "valid"}, ce \in BOOLEAN,
       ex \in SUBSET (KernelPaths \cup {"hfr"}), pd \in BOOLEAN}

InitConv ==
    /\ \/ /\ pc = "conv_call"
          /\ args \in {a \in ConvArgs : a.comp_endtidal}
       \/ /\ pc = "pet_call"
          /\ args \in ConvArgs
    /\ func_upsamp_size = 0
    /\ optshift = None
    /\ InitLocals

NextConv ==
    \/ ConvolveCall
    \/ ComputeSqueeze
    \/ ComputeEndtidal
    \/ ComputeConvolve

SpecConv == InitConv /\ [][NextConv]_vars

\* --------------------------------------------------------------- claims
\* round() of the rational num/den >= 0 to the nearest integer
RoundNearest(num, den) == (2 * num + den) \div (2 * den)

\* an optional argument counts as given when the code's test `if x` holds
Given(o) == o.some /\ o.v # 0

\* the windows of the bank as start positions in the unpadded regressor
BankStarts == [k \in 1..Len(petco2hrf_lagged.rows) |-> petco2hrf_lagged.rows[k] - fine.lpad]

\* C1: with lag_min = -lag_max the bank returned by
\* create_fine_shift_regressors has 2*round(lag_max*freq) rows in legacy mode
\* and one more otherwise, whatever the bulk shift and the lengths.
C1_RowCount ==
    (pc = "fine_returned" /\ args.lag_min.some /\ args.lag_min.v = -args.lag_max.v)
    => Len(petco2hrf_lagged.rows)
         = 2 * RoundNearest(args.lag_max.v * args.freq, TimeDen)
           + (IF args.legacy THEN 0 ELSE 1)

\* C2 as claimed: the lag bounds become sample counts by rounding to the
\* nearest integer.
C2_RoundedShifts ==
    pc = "fine_returned"
    => /\ fine.neg_shifts = RoundNearest(Abs(args.lag_min.v) * args.freq, TimeDen)
       /\ fine.pos_shifts = RoundNearest(args.lag_max.v * args.freq, TimeDen)
                            + (IF args.legacy THEN 0 ELSE 1)

\* C2 as amended: the lag bounds become sample counts by truncation, int():
\* neg_shifts is the largest integer not above |lag_min|*freq and pos_shifts
\* the largest integer not above lag_max*freq, plus 1 unless legacy.
C2_TruncatedShifts ==
    pc = "fine_returned"
    => LET n == fine.neg_shifts
           p == fine.pos_shifts - (IF args.legacy THEN 0 ELSE 1)
       IN  /\ n * TimeDen <= Abs(args.lag_min.v) * args.freq
           /\ Abs(args.lag_min.v) * args.freq < (n + 1) * TimeDen
           /\ p * TimeDen <= args.lag_max.v * args.freq
           /\ args.lag_max.v * args.freq < (p + 1) * TimeDen

\* C2: a returned call whose products are not integers: |lag_min|*freq = 1.5
\* and lag_max*freq = 0.75 samples, truncated to 1 and 0
C2_Witness ==
    /\ pc = "fine_returned"
    /\ 2 * Abs(args.lag_min.v) * args.freq = 3 * TimeDen
    /\ 4 * args.lag_max.v * args.freq = 3 * TimeDen
    /\ fine.neg_shifts = 1
    /\ fine.pos_shifts = (IF args.legacy THEN 0 ELSE 1)

\* C3: the rows of the bank are the windows starting at the consecutive
\* positions optshift - neg_shifts .. optshift + pos_shifts - 1 of the
\* unpadded regressor (pos_shifts holds the included upper end unless legacy),
\* one row each, in one direction, the window at the bulk shift among them.
C3_Windows ==
    pc = "fine_returned"
    => LET lo == fine.shift - fine.neg_shifts
           hi == fine.shift + fine.pos_shifts - 1
           st == BankStarts
       IN  /\ Len(st) = hi - lo + 1
           /\ \/ \A k \in 1..Len(st) : st[k] = lo + (k - 1)
              \/ \A k \in 1..Len(st) : st[k] = hi - (k - 1)
           /\ petco2hrf_lagged.cols = args.func_len
           /\ hi >= fine.shift => \E k \in 1..Len(st) : st[k] = fine.shift

\* C4: compute_bulk_shift raises exactly when the shift x_corr found plus the
\* full upsampled functional length exceeds len(petco2hrf), and otherwise
\* returns that shift unchanged.
C4_OverflowExactly ==
    /\ pc = "bulk_raised"
       => /\ err = "Exception"
          /\ xcorr.shift + func_upsamp_size > args.reg_len
          /\ ~optshift.some
    /\ pc = "bulk_returned"
       => /\ err = ""
          /\ xcorr.shift + func_upsamp_size <= args.reg_len
          /\ optshift = Some(xcorr.shift)

\* C4: the call raised although the shift plus the trial-truncated length fits
C4_Witness ==
    /\ pc = "bulk_raised"
    /\ xcorr.first_tp > 0
    /\ xcorr.func_cut_len < func_upsamp_size
    /\ xcorr.shift + xcorr.func_cut_len <= args.reg_len

\* C5 as claimed: when the overflow is raised nothing has been written: no
\* shift file, no xcorr figure, no regressor, and nothing is returned.
C5_NoPartialOutput ==
    (pc = "raised" /\ err = "Exception")
    => /\ files = <<>>
       /\ ~petco2hrf_demean.some
       /\ ~petco2hrf_lagged.some

\* C5 as amended: when the overflow is raised the shift file and the xcorr
\* figure have been written, and nothing else: no regressor is sliced or
\* exported, no lag bank is built, and nothing is returned.
C5_OnlyShiftArtifacts ==
    (pc = "raised" /\ err = "Exception")
    => /\ files = <<"optshift.1D", "xcorr.png">>
       /\ ~optshift.some
       /\ ~petco2hrf_shift.some
       /\ ~petco2hrf_demean.some
       /\ ~petco2hrf_lagged.some
       /\ ~fine.called

\* C5: the overflow raised inside create_physio_regressor
C5_Witness ==
    /\ pc = "raised"
    /\ err = "Exception"
    /\ xcorr.called
    /\ xcorr.shift + func_upsamp_size > args.reg_len

\* C6: the search window is a fixed function of (trial_len, n_trials): both
\* given and n_trials <= 3: first_tp = 0, range unrestricted; n_trials = 4:
\* first_tp = int(trial_len*freq), the functional signal cut there and passed
\* as offset, range unrestricted; n_trials > 4: also
\* n_shifts = first_tp*(n_trials-2); one or neither given: first_tp = 0,
\* range unrestricted, and no error.
C6_SearchWindow ==
    xcorr.called
    => LET tl   == args.trial_len
           nt   == args.n_trials
           both == Given(tl) /\ Given(nt)
           ftp  == (tl.v * args.freq) \div TimeDen
       IN  /\ (both /\ nt.v <= 3)
              => xcorr.first_tp = 0 /\ xcorr.n_shifts = None
           /\ (both /\ nt.v = 4)
              => xcorr.first_tp = ftp /\ xcorr.n_shifts = None
           /\ (both /\ nt.v > 4)
              => xcorr.first_tp = ftp /\ xcorr.n_shifts = Some(ftp * (nt.v - 2))
           /\ ~both
              => xcorr.first_tp = 0 /\ xcorr.n_shifts = None
           /\ xcorr.offset = xcorr.first_tp
           /\ xcorr.func_cut_len = Max(0, func_upsamp_size - xcorr.first_tp)
           /\ pc = "bulk_xcorr" => err = ""

\* C6: four trials, the first one dropped, the range unrestricted
C6_Witness ==
    /\ pc = "bulk_xcorr"
    /\ args.n_trials = Some(4)
    /\ xcorr.first_tp > 0
    /\ xcorr.n_shifts = None
    /\ xcorr.func_cut_len < func_upsamp_size

\* the lag bank branch of create_physio_regressor has been taken
LagStepDone == pc = "returned" \/ (pc = "raised" /\ err # "Exception")

\* file f has been written
Written(f) == \E i \in 1..Len(files) : files[i] = f

C8_SkipXcorr ==
    args.skip_xcorr
    => /\ ~xcorr.called
       /\ ~Written("optshift.1D")
       /\ ~Written("xcorr.png")
       /\ pc \notin {"xcorr"}
       /\ err # "Exception"
       /\ pc \notin {"start", "resampled"} => optshift = Some(0)
       /\ petco2hrf_shift.some => petco2hrf_shift.start = 0
       /\ fine.called => fine.shift = 0

\* C8: a skip_xcorr call with trials and abs_xcorr given that built a lag bank
C8_Witness ==
    /\ args.skip_xcorr
    /\ args.abs_xcorr
    /\ Given(args.trial_len)
    /\ Given(args.n_trials)
    /\ pc = "returned"
    /\ petco2hrf_shift.some
    /\ fine.called
    /\ petco2hrf_lagged.some

\* C9: with lagged_regression true, a lag_max and no lag_min the lag bank is
\* the one of lag_min = -lag_max, not an error.
C9_DefaultLagMin ==
    (LagStepDone /\ args.lagged_regression /\ Given(args.lag_max) /\ ~args.lag_min.some)
    => /\ err = ""
       /\ pc = "returned"
       /\ petco2hrf_lagged.some
       /\ petco2hrf_lagged.rows
            = FineShift(args.reg_len, optshift.v, args.lag_max.v, -args.lag_max.v,
                        args.freq, func_upsamp_size, args.legacy).rows

ConvolveSpecGiven == ArgOrDefault(args.response_function, ConvolveDefault)

\* the names convolve_signal knows, after lowercasing
KnownKernels == {"hrf", "rrf", "crf", "icrf", "none"}

\* a direct call of convolve_signal is over and its signal was not rejected
\* for its shape
ConvolveResolved ==
    /\ pc \in {"conv_returned", "conv_raised"}
    /\ conv.stage # "shape"

\* the kernel is given as the path of a file that does not exist
MissingPath(rf) ==
    /\ rf.type \in {"str", "PosixPath"}
    /\ rf.text \in KernelPaths
    /\ rf.text \notin args.existing

\* C11: compute_petco2hrf called without response_function convolves the
\* demeaned PetCO2 trace with the canonical HRF of create_hrf(freq) and
\* returns the convolved trace, without raising.
C11_DefaultIsHrf ==
    (/\ pc \in {"pet_returned", "pet_raised"}
     /\ args.response_function = Omitted
     /\ Len(Squeeze(args.shape)) = 1)
    => /\ pc = "pet_returned"
       /\ err = ""
       /\ conv.convolved
       /\ conv.kernel = "hrf"
       /\ conv.kernel_len = create_hrf(args.freq).hrf_len
       /\ conv.out = <<ConvolveLen(Squeeze(args.shape)[1], conv.kernel_len, args.mode)>>

\* C12 as claimed: convolve_signal given a path that does not exist, as a
\* string or as a path object, raises OSError, and NotImplementedError for the
\* kernel is raised only when the specification is neither a known name, nor
\* a path, nor a numeric array.
C12_MissingPathIsOSError ==
    ConvolveResolved
    => LET rf == ConvolveSpecGiven
       IN  /\ MissingPath(rf) => (pc = "conv_raised" /\ err = "OSError")
           /\ (err = "NotImplementedError" /\ conv.stage = "kernel")
              => /\ ~(rf.type = "str" /\ Lower(rf.text) \in KnownKernels)
                 /\ ~(rf.type \in {"str", "PosixPath"} /\ rf.text \in KernelPaths)
                 /\ ~(rf.type \in {"list", "ndarray"} /\ rf.numeric)

\* C12 as amended: a path object that does not exist raises OSError; a string
\* that names no existing file is lowercased and taken as a kernel name, so
\* unless it is a known name (a missing path among them) it raises
\* NotImplementedError; OSError is raised for nothing else, and
\* NotImplementedError for the kernel only for such a string or for a value
\* of an unsupported type.
C12_MissingPathByType ==
    ConvolveResolved
    => LET rf      == ConvolveSpecGiven
           missing == rf.text \notin args.existing
           unknown == rf.type = "str" /\ missing /\ Lower(rf.text) \notin KnownKernels
       IN  /\ (rf.type = "PosixPath" /\ missing)
              => (pc = "conv_raised" /\ err = "OSError" /\ conv.stage = "kernel")
           /\ unknown
              => (pc = "conv_raised" /\ err = "NotImplementedError"
                  /\ conv.stage = "kernel")
           /\ err = "OSError" => (rf.type = "PosixPath" /\ missing)
           /\ (err = "NotImplementedError" /\ conv.stage = "kernel")
              => \/ unknown
                 \/ rf.type \notin {"str", "PosixPath", "list", "ndarray", "NoneType"}

\* C12: a path object that does not exist was given and OSError was raised
C12_Witness ==
    /\ pc = "conv_raised"
    /\ args.response_function.type = "PosixPath"
    /\ args.response_function.text \in KernelPaths
    /\ args.response_function.text \notin args.existing
    /\ err = "OSError"
    /\ conv.stage = "kernel"

\* C13: compute_petco2hrf and convolve_signal both reject, with
\* NotImplementedError and before any convolution or export, every signal
\* that has more than one axis left after squeezing.
C13_RejectsMultiDim ==
    (pc \notin {"conv_call", "pet_call"} /\ Len(Squeeze(args.shape)) > 1)
    => /\ pc \in {"conv_raised", "pet_raised"}
       /\ err = "NotImplementedError"
       /\ conv.called => conv.stage = "shape"
       /\ conv.kernel = ""
       /\ conv.out = <<>>
       /\ ~conv.convolved
       /\ files = <<>>

\* C14: create_hrf(freq) returns, for every positive integer freq, 32*freq + 1
\* samples, every 16th of the oversampled grid, and the largest index taken,
\* 16*32*freq, is inside the grid.
C14_HrfLength ==
    pc # "hrf_call"
    => /\ pc = "hrf_returned"
       /\ hrf.hrf_len = 32 * args.freq + 1
       /\ hrf.max_idx = 16 * 32 * args.freq
       /\ hrf.max_idx <= hrf.grid_len - 1

\* the files of a whole run of create_physio_regressor, in the order of the
\* steps that write them
StepFiles ==
    IF args.skip_xcorr
    THEN <<"petco2hrf_vs_avgroi.png", "petco2hrf_simple", "regr/shifts">>
    ELSE <<"optshift.1D", "xcorr.png", "petco2hrf_vs_avgroi.png",
           "petco2hrf_simple", "regr/shifts">>

\* C15: create_physio_regressor goes resample, bulk shift (search or skip),
\* slice, export of the single regressor, lag bank, in that order: every step
\* has the results of the steps before it, the files are written in that
\* order, the lag bank generator is entered only after the single regressor
\* file is written, and a failure inside the generator leaves the single
\* regressor (and the shift file of a search) exported.
C15_StepOrder ==
    /\ Len(files) <= Len(StepFiles)
    /\ files = SubSeq(StepFiles, 1, Len(files))
    /\ pc # "start" => func_upsamp_size >= 1
    /\ xcorr.called => func_upsamp_size >= 1
    /\ optshift.some => (args.skip_xcorr \/ Written("optshift.1D"))
    /\ petco2hrf_shift.some => optshift.some
    /\ petco2hrf_demean.some <=> petco2hrf_shift.some
    /\ petco2hrf_demean.some <=> Written("petco2hrf_simple")
    /\ fine.called => (petco2hrf_demean.some /\ Written("petco2hrf_simple"))
    /\ petco2hrf_lagged.some <=> Written("regr/shifts")
    /\ petco2hrf_lagged.some => fine.called
    /\ (pc = "raised" /\ err \in {"TypeError", "ValueError"})
       => /\ fine.called
          /\ petco2hrf_demean.some
          /\ Written("petco2hrf_simple")
          /\ ~args.skip_xcorr => Written("optshift.1D")
          /\ ~Written("regr/shifts")

\* C15: the lag bank generator failed after a bulk shift search: the shift
\* file and the single regressor are on disk, the bank is not
C15_Witness ==
    /\ pc = "raised"
    /\ err = "TypeError"
    /\ fine.called
    /\ xcorr.called
    /\ files = <<"optshift.1D", "xcorr.png", "petco2hrf_vs_avgroi.png",
                 "petco2hrf_simple">>
    /\ petco2hrf_demean.some
    /\ ~petco2hrf_lagged.some

\* C16: the padding is sufficient: for every optshift >= 0 and lag bounds both
\* slice bounds, pos_idx and neg_idx + 1, lie in
\* 0 .. len(padded) - func_upsamp_size, so no bound is negative and the slice
\* is not empty.
C16_PaddingSufficient ==
    pc = "fine_returned"
    => /\ fine.pos_idx \in 0..(fine.padded_len - func_upsamp_size)
       /\ (fine.neg_idx + 1) \in 0..(fine.padded_len - func_upsamp_size)
       /\ Len(fine.rows) >= 1

\* C17: whenever create_physio_regressor reaches the export of the single
\* regressor, after a bulk shift search or with skip_xcorr, the slice
\* petco2hrf[optshift : optshift + len(func_upsampled)] handed to the export
\* has exactly len(func_upsampled) samples.
C17_ExactSliceLength ==
    petco2hrf_shift.some => petco2hrf_shift.len = func_upsamp_size

====
